---- MODULE Spec2Model ----
(***************************************************************************)
(* Model of the DXIL validator wrapper (dxil_validator.cpp): construction  *)
(* of a dxil_validator context, validation, disassembly and destruction.   *)
(* Every external call the code makes (LoadLibraryA, GetProcAddress,       *)
(* DxcCreateInstance, the COM methods, ralloc) is an event whose outcome   *)
(* is an input chosen by the environment; each exported function is one    *)
(* action that runs the whole function and records the events it made.     *)
(***************************************************************************)
EXTENDS Integers, Sequences, FiniteSets, TLC

\* ---------------------------------------------------------------- bounds
MaxCalls == 2      \* validate/disassemble calls made on one context
MaxBuf == 2        \* largest decoded UTF-8 buffer, in bytes
MaxByte == 2       \* bytes are 0..MaxByte, 0 is the terminator
PathSample == 2    \* how many path lengths are sampled at each end
MaxPtr == 2        \* pointers are 0..MaxPtr, 0 is NULL
MaxSize == 2       \* largest size given to a ShaderBlob
MaxBlobCalls == 3  \* method calls made on one ShaderBlob
PoolSize == 6      \* bytes in the pool's buffer
MaxData == 2       \* largest caller buffer handed to an upload

\* ------------------------------------------------------ program constants
MAX_PATH == 260
DllNameLen == 8    \* strlen("DXIL.dll")
S_OK == 0
S_FALSE == 1
E_FAIL == -2147467259
E_NOINTERFACE == -2147467262

HResults == {S_OK, S_FALSE, E_FAIL}

SUCCEEDED(hr) == hr >= 0

FAILED(hr) == hr < 0

\* ------------------------------------------------------------ the context
Libs == {"dxil_mod", "dxcompiler_mod"}

Svcs == {"dxc_validator", "dxc_library", "dxc_compiler"}

Fields == Libs \cup Svcs

\* TRUE stands for a non-null handle or pointer; rzalloc zeroes the struct
ZeroVal == [f \in Fields |-> FALSE]

\* ----------------------------------------------------------------- events
Ev(c, a, ok) == [call |-> c, arg |-> a, ok |-> ok]

Count(tr, c, a) == Cardinality({k \in 1..Len(tr) : tr[k].call = c /\ tr[k].arg = a})

CountOk(tr, c, a) ==
  Cardinality({k \in 1..Len(tr) : tr[k].call = c /\ tr[k].arg = a /\ tr[k].ok})

Called(tr, c) == \E k \in 1..Len(tr) : tr[k].call = c

\* position of the first event (c, a) in tr, 0 when there is none
Pos(tr, c, a) ==
  IF \E k \in 1..Len(tr) : tr[k].call = c /\ tr[k].arg = a
  THEN CHOOSE k \in 1..Len(tr) :
         /\ tr[k].call = c /\ tr[k].arg = a
         /\ \A j \in 1..(k - 1) : ~(tr[j].call = c /\ tr[j].arg = a)
  ELSE 0

LoadArgs(l) == IF l = "dxcompiler_mod" THEN {"dxcompiler.dll"}
               ELSE {"DXIL.dll", "self\\DXIL.dll"}

Loads(tr, l) ==
  Cardinality({k \in 1..Len(tr) :
     tr[k].call = "LoadLibraryA" /\ tr[k].arg \in LoadArgs(l) /\ tr[k].ok})

Unloads(tr, l) == Count(tr, "FreeLibrary", l)

ClsidOf(s) == CASE s = "dxc_validator" -> "CLSID_DxcValidator"
                [] s = "dxc_library" -> "CLSID_DxcLibrary"
                [] OTHER -> "CLSID_DxcCompiler"

Acquires(tr, s) == CountOk(tr, "DxcCreateInstance", ClsidOf(s))

Releases(tr, s) == Count(tr, "Release", s)

\* ------------------------------------------------------------ load_dxil_mod
NoSlash == -1

\* lengths GetModuleFileNameA may report: short ones and those near MAX_PATH
PathSizes == (0..PathSample) \cup ((MAX_PATH - DllNameLen - PathSample)..MAX_PATH)

\* index of the last backslash in a path of path_size characters
SlashAt(path_size) == {NoSlash} \cup {k \in PathSizes : k < path_size}

\* a test that misses the truncated path
SelfPathUnusable_NoTruncationCheck(path_size) == path_size = 0

\* GetModuleFileNameA returns 0 on error and the buffer size on truncation
SelfPathUnusable(path_size) == path_size = 0 \/ path_size = MAX_PATH

\* strcat_s onto the path cut after the last backslash: the directory part,
\* the file name and the terminator must fit in self_path[MAX_PATH]
StrcatFails(last_slash) == (last_slash + 1) + DllNameLen + 1 > MAX_PATH

load_dxil_mod(defaultOk, path_size, last_slash, selfOk) ==
  LET e1 == Ev("LoadLibraryA", "DXIL.dll", defaultOk)
      e2 == Ev("GetModuleFileNameA", "self_path", ~SelfPathUnusable(path_size))
      eR == Ev("strrchr", "self_path", last_slash # NoSlash)
      e3 == Ev("strcat_s", "DXIL.dll", ~StrcatFails(last_slash))
      e4 == Ev("LoadLibraryA", "self\\DXIL.dll", selfOk)
  IN IF defaultOk THEN [mod |-> TRUE, ev |-> <<e1>>]
     ELSE IF SelfPathUnusable(path_size) THEN [mod |-> FALSE, ev |-> <<e1, e2>>]
     ELSE IF last_slash = NoSlash THEN [mod |-> FALSE, ev |-> <<e1, e2, eR>>]
     ELSE IF StrcatFails(last_slash) THEN [mod |-> FALSE, ev |-> <<e1, e2, eR, e3>>]
     ELSE [mod |-> selfOk, ev |-> <<e1, e2, eR, e3, e4>>]

\* ----------------------------------------------------- create_dxc_validator
create_dxc_validator(procOk, instOk) ==
  LET e1 == Ev("GetProcAddress", "dxil_mod", procOk)
      e2 == Ev("DxcCreateInstance", "CLSID_DxcValidator", instOk)
  IN IF ~procOk THEN [svc |-> FALSE, ev |-> <<e1>>]
     ELSE [svc |-> instOk, ev |-> <<e1, e2>>]

\* ---------------------------------------------------- dxil_create_validator
\* the environment's answers to the calls dxil_create_validator makes
CreateInputs ==
  [allocOk : BOOLEAN, defaultOk : BOOLEAN, path_size : PathSizes,
   last_slash : {NoSlash} \cup PathSizes, selfOk : BOOLEAN,
   procOk : BOOLEAN, instOk : BOOLEAN,
   compilerModOk : BOOLEAN, compilerProcOk : BOOLEAN,
   libraryOk : BOOLEAN, compilerOk : BOOLEAN]

\* a fail: label that forgets FreeLibrary
CreateFail_NoUnload(v, ev) ==
  [ret |-> FALSE, val |-> v, alloc |-> FALSE,
   ev |-> ev \o <<Ev("ralloc_free", "val", TRUE)>>]

\* the fail: label
CreateFail(v, ev) ==
  [ret |-> FALSE, val |-> v, alloc |-> FALSE,
   ev |-> ev \o (IF v.dxil_mod THEN <<Ev("FreeLibrary", "dxil_mod", TRUE)>> ELSE <<>>)
             \o <<Ev("ralloc_free", "val", TRUE)>>]

\* a diagnostics part that unloads dxcompiler.dll when its factory is missing
CreateDiagnostics_UnloadOnFailure(v, i) ==
  LET eL == Ev("LoadLibraryA", "dxcompiler.dll", i.compilerModOk)
      eP == Ev("GetProcAddress", "dxcompiler_mod", i.compilerProcOk)
      eF == Ev("FreeLibrary", "dxcompiler_mod", TRUE)
      eA == Ev("DxcCreateInstance", "CLSID_DxcLibrary", i.libraryOk)
      eB == Ev("DxcCreateInstance", "CLSID_DxcCompiler", i.compilerOk)
      v1 == [v EXCEPT !.dxcompiler_mod = i.compilerModOk]
  IN IF ~i.compilerModOk THEN [val |-> v1, ev |-> <<eL>>]
     ELSE IF ~i.compilerProcOk THEN [val |-> v, ev |-> <<eL, eP, eF>>]
     ELSE [val |-> [v1 EXCEPT !.dxc_library = i.libraryOk,
                              !.dxc_compiler = i.compilerOk],
           ev |-> <<eL, eP, eA, eB>>]

\* the optional part: dxcompiler.dll, IDxcLibrary, IDxcCompiler
CreateDiagnostics(v, i) ==
  LET eL == Ev("LoadLibraryA", "dxcompiler.dll", i.compilerModOk)
      eP == Ev("GetProcAddress", "dxcompiler_mod", i.compilerProcOk)
      eA == Ev("DxcCreateInstance", "CLSID_DxcLibrary", i.libraryOk)
      eB == Ev("DxcCreateInstance", "CLSID_DxcCompiler", i.compilerOk)
      v1 == [v EXCEPT !.dxcompiler_mod = i.compilerModOk]
  IN IF ~i.compilerModOk THEN [val |-> v1, ev |-> <<eL>>]
     ELSE IF ~i.compilerProcOk THEN [val |-> v1, ev |-> <<eL, eP>>]
     ELSE [val |-> [v1 EXCEPT !.dxc_library = i.libraryOk,
                              !.dxc_compiler = i.compilerOk],
           ev |-> <<eL, eP, eA, eB>>]

\* construction that goes on without DXIL.dll, or without the validator
DxilModMissing_Ignored(v) == FALSE

ValidatorMissing_Ignored(v) == FALSE

\* lines 98 and 107: the two hard requirements
DxilModMissing(v) == ~v.dxil_mod

ValidatorMissing(v) == ~v.dxc_validator

dxil_create_validator(i) ==
  LET e0 == Ev("rzalloc", "val", i.allocOk)
      ld == load_dxil_mod(i.defaultOk, i.path_size, i.last_slash, i.selfOk)
      v1 == [ZeroVal EXCEPT !.dxil_mod = ld.mod]
      cv == create_dxc_validator(i.procOk, i.instOk)
      v2 == [v1 EXCEPT !.dxc_validator = cv.svc]
      dg == CreateDiagnostics(v2, i)
  IN IF ~i.allocOk THEN [ret |-> FALSE, val |-> ZeroVal, alloc |-> FALSE, ev |-> <<e0>>]
     ELSE IF DxilModMissing(v1) THEN CreateFail(v1, <<e0>> \o ld.ev)
     ELSE IF ValidatorMissing(v2) THEN CreateFail(v2, <<e0>> \o ld.ev \o cv.ev)
     ELSE [ret |-> TRUE, val |-> dg.val, alloc |-> TRUE,
           ev |-> <<e0>> \o ld.ev \o cv.ev \o dg.ev]

\* --------------------------------------------------- dxil_destroy_validator
\* A Release event is ok when the pointer it is called through is non-null,
\* a FreeLibrary event when the handle is.
\* a teardown that never releases IDxcCompiler
DestroyDiagnostics_LeakCompiler(v) ==
  IF v.dxcompiler_mod
  THEN (IF v.dxc_library THEN <<Ev("Release", "dxc_library", TRUE)>> ELSE <<>>)
       \o <<Ev("FreeLibrary", "dxcompiler_mod", TRUE)>>
  ELSE <<>>

\* a teardown that unloads dxcompiler.dll before releasing its services
DestroyDiagnostics_UnloadFirst(v) ==
  IF v.dxcompiler_mod
  THEN <<Ev("FreeLibrary", "dxcompiler_mod", TRUE)>>
       \o (IF v.dxc_library THEN <<Ev("Release", "dxc_library", TRUE)>> ELSE <<>>)
       \o (IF v.dxc_compiler THEN <<Ev("Release", "dxc_compiler", TRUE)>> ELSE <<>>)
  ELSE <<>>

DestroyDiagnostics(v) ==
  IF v.dxcompiler_mod
  THEN (IF v.dxc_library THEN <<Ev("Release", "dxc_library", TRUE)>> ELSE <<>>)
       \o (IF v.dxc_compiler THEN <<Ev("Release", "dxc_compiler", TRUE)>> ELSE <<>>)
       \o <<Ev("FreeLibrary", "dxcompiler_mod", TRUE)>>
  ELSE <<>>

dxil_destroy_validator(v) ==
  <<Ev("Release", "dxc_validator", v.dxc_validator),
    Ev("FreeLibrary", "dxil_mod", v.dxil_mod)>>
  \o DestroyDiagnostics(v)
  \o <<Ev("ralloc_free", "val", TRUE)>>

\* ------------------------------------------------------------------ strings
Bytes == 0..MaxByte

Buffers == UNION {[1..n -> Bytes] : n \in 0..MaxBuf}

\* what strdup reads: the bytes before the first terminator
RECURSIVE CStr(_)
CStr(b) == IF b = <<>> \/ Head(b) = 0 THEN <<>> ELSE <<Head(b)>> \o CStr(Tail(b))

CStrings == {CStr(b) : b \in Buffers}

\* a char*: the caller's old value, no out-parameter at all, NULL, or a
\* null-terminated string with the given bytes before its terminator
OldStr == [kind |-> "old", str |-> <<>>]

NoStr == [kind |-> "none", str |-> <<>>]

NullStr == [kind |-> "null", str |-> <<>>]

Str(cs) == [kind |-> "str", str |-> cs]

UBOutcomes == {"crash", "continue"}

\* size_t arithmetic wraps: GetBufferSize() - 1 is taken modulo 2^64 (2^32 on
\* a 32-bit build).  The model's integers stop at 2^31, so the modulus is
\* stood in by 2^30, far above every buffer size of the model.
SizeModulus == 1073741824

\* the index of line 241 / 272
TerminatorIndex(size) == (size - 1) % SizeModulus

IndexInBuffer(b) == TerminatorIndex(Len(b)) < Len(b)

\* str[GetBufferSize() - 1] = 0, for an index inside the buffer (C indices
\* start at 0, sequence positions at 1)
Terminate(b) == [b EXCEPT ![TerminatorIndex(Len(b)) + 1] = 0]

\* The tail shared by both functions: terminate the decoded buffer in place
\* and ralloc_strdup it.  With GetBufferSize() = 0 the index is SIZE_MAX and
\* the store is outside the buffer: the call either faults or goes on and
\* duplicates whatever bytes lie at the pointer.
DupTerminated(i) ==
  LET eD == Ev("ralloc_strdup", "val", i.strdupOk)
  IN IF ~IndexInBuffer(i.buf) /\ i.ub = "crash"
     THEN [str |-> NullStr, crashed |-> TRUE, ev |-> <<>>, strs |-> 0]
     ELSE IF ~i.strdupOk
     THEN [str |-> NullStr, crashed |-> FALSE, ev |-> <<eD>>, strs |-> 0]
     ELSE [str |-> Str(IF IndexInBuffer(i.buf) THEN CStr(Terminate(i.buf)) ELSE i.garbage),
           crashed |-> FALSE, ev |-> <<eD>>, strs |-> 1]

\* ----------------------------------------------------- dxil_validate_module
BaseInput ==
  [validateOk |-> TRUE, hr |-> S_OK, error |-> FALSE, errBufOk |-> FALSE,
   disasmOk |-> FALSE, utf8Ok |-> FALSE, buf |-> <<>>, strdupOk |-> TRUE,
   ub |-> "crash", garbage |-> <<>>]

\* outcomes of the decoded-buffer tail once GetBlobAsUtf8 succeeded
DecodedInputs(base) ==
  {[base EXCEPT !.utf8Ok = TRUE, !.buf = b, !.strdupOk = a] :
      b \in Buffers \ {<<>>}, a \in BOOLEAN}
  \cup {[base EXCEPT !.utf8Ok = TRUE, !.buf = <<>>, !.ub = "crash"]}
  \cup {[base EXCEPT !.utf8Ok = TRUE, !.buf = <<>>, !.ub = "continue",
                     !.strdupOk = a, !.garbage = g] : a \in BOOLEAN, g \in CStrings}

\* The environment's answers to the calls dxil_validate_module makes on
\* context v; an answer is an input only when the call is made.
ValidateInputs(v) ==
  LET status == {[BaseInput EXCEPT !.hr = h, !.error = e] : h \in HResults, e \in BOOLEAN}
      decoding == {b \in status : FAILED(b.hr) /\ b.error /\ v.dxc_library}
  IN status
     \cup {[b EXCEPT !.validateOk = FALSE, !.ub = u] : b \in status, u \in UBOutcomes}
     \cup {[b EXCEPT !.errBufOk = TRUE] : b \in decoding}
     \cup UNION {DecodedInputs([b EXCEPT !.errBufOk = TRUE]) : b \in decoding}

\* lines 223, 226: the two tests that guard the decoding of the message
WantsMessage(hr, error) == FAILED(hr) /\ error

\* a validate that does not test dxc_library before decoding
LacksLibrary_Unchecked(v) == FALSE

LacksLibrary(v) == ~v.dxc_library

\* a return that compares the status with S_OK instead of testing its sign
ValidateResult_OnlyS_OK(hr) == hr = S_OK

\* the return statement at the end of the function
ValidateResult(hr) == SUCCEEDED(hr)

Crashed(ev) ==
  [ret |-> FALSE, returned |-> FALSE, error |-> NoStr, ev |-> ev, strs |-> 0]

\* lines 232-243; blob and blob_utf8 are ComPtrs released at the end of the
\* block; assigned tells whether line 242 stored into *error
ValidateDecode(v, i) ==
  LET eG == Ev("GetErrorBuffer", "result", i.errBufOk)
      eU == Ev("GetBlobAsUtf8", "blob", i.utf8Ok)
      rB == Ev("Release", "blob", TRUE)
      rU == Ev("Release", "blob_utf8", TRUE)
      d == DupTerminated(i)
  IN IF ~i.errBufOk
     THEN [str |-> NullStr, assigned |-> FALSE, crashed |-> FALSE,
           ev |-> <<eG>>, strs |-> 0]
     ELSE IF ~i.utf8Ok
     THEN [str |-> NullStr, assigned |-> FALSE, crashed |-> FALSE,
           ev |-> <<eG, eU, rB>>, strs |-> 0]
     ELSE IF d.crashed
     THEN [str |-> NullStr, assigned |-> FALSE, crashed |-> TRUE,
           ev |-> <<eG, eU>>, strs |-> 0]
     ELSE [str |-> d.str, assigned |-> TRUE, crashed |-> FALSE,
           ev |-> <<eG, eU>> \o d.ev \o <<rU, rB>>, strs |-> d.strs]

\* a validate that forgets to clear *error before trying to decode
ResetError_Skipped(old) == old

\* line 225: *error = NULL
ResetError(old) == NullStr

\* a scope exit that also drops the context's validator reference
ResultScopeExit_DropsValidator(i) ==
  (IF i.validateOk THEN <<Ev("Release", "result", TRUE)>> ELSE <<>>)
  \o <<Ev("Release", "dxc_validator", TRUE)>>

\* ComPtr<IDxcOperationResult> result goes out of scope at each return
ResultScopeExit(i) ==
  IF i.validateOk THEN <<Ev("Release", "result", TRUE)>> ELSE <<>>

\* When Validate leaves result null, result->GetStatus() goes through a null
\* pointer: the call faults, or goes on with hr holding whatever it held
\* (i.hr) and the later result->GetErrorBuffer() not succeeding.
dxil_validate_module(v, i) ==
  LET eV == Ev("Validate", "source", i.validateOk)
      eS == Ev("GetStatus", "result", i.validateOk)
      rR == ResultScopeExit(i)
      dec == ValidateDecode(v, i)
      out == IF i.error THEN OldStr ELSE NoStr
      cleared == ResetError(out)
  IN IF ~i.validateOk /\ i.ub = "crash" THEN Crashed(<<eV, eS>>)
     ELSE IF WantsMessage(i.hr, i.error)
     THEN IF LacksLibrary(v)
          THEN [ret |-> FALSE, returned |-> TRUE, error |-> cleared,
                ev |-> <<eV, eS>> \o rR, strs |-> 0]
          ELSE IF dec.crashed THEN Crashed(<<eV, eS>> \o dec.ev)
          ELSE [ret |-> ValidateResult(i.hr), returned |-> TRUE,
                error |-> IF dec.assigned THEN dec.str ELSE cleared,
                ev |-> <<eV, eS>> \o dec.ev \o rR, strs |-> dec.strs]
     ELSE [ret |-> ValidateResult(i.hr), returned |-> TRUE, error |-> out,
           ev |-> <<eV, eS>> \o rR, strs |-> 0]

\* ------------------------------------------------------- dxil_disasm_module
\* a test that gives up only when both services are missing
DisasmUnavailable_BothMissing(v) == ~v.dxc_compiler /\ ~v.dxc_library

\* line 252
DisasmUnavailable(v) == ~v.dxc_compiler \/ ~v.dxc_library

DisasmInputs(v) ==
  IF DisasmUnavailable(v) THEN {BaseInput}
  ELSE {BaseInput}
       \cup {[BaseInput EXCEPT !.disasmOk = TRUE]}
       \cup DecodedInputs([BaseInput EXCEPT !.disasmOk = TRUE])

\* what the early return after a failed GetBlobAsUtf8 gives back (ComPtr blob)
DisasmUtf8FailureCleanup_Leak == <<>>

DisasmUtf8FailureCleanup == <<Ev("Release", "blob", TRUE)>>

dxil_disasm_module(v, i) ==
  LET eA == Ev("Disassemble", "source", i.disasmOk)
      eU == Ev("GetBlobAsUtf8", "blob", i.utf8Ok)
      rB == Ev("Release", "blob", TRUE)
      rU == Ev("Release", "blob_utf8", TRUE)
      d == DupTerminated(i)
  IN IF DisasmUnavailable(v)
     THEN [ret |-> NullStr, returned |-> TRUE, ev |-> <<>>, strs |-> 0]
     ELSE IF ~i.disasmOk
     THEN [ret |-> NullStr, returned |-> TRUE, ev |-> <<eA>>, strs |-> 0]
     ELSE IF ~i.utf8Ok
     THEN [ret |-> NullStr, returned |-> TRUE,
           ev |-> <<eA, eU>> \o DisasmUtf8FailureCleanup, strs |-> 0]
     ELSE IF d.crashed
     THEN [ret |-> NoStr, returned |-> FALSE, ev |-> <<eA, eU>>, strs |-> 0]
     ELSE [ret |-> d.str, returned |-> TRUE,
           ev |-> <<eA, eU>> \o d.ev \o <<rU, rB>>, strs |-> d.strs]

\* --------------------------------------------------------------- ShaderBlob
Ptrs == 0..MaxPtr

\* interfaces a caller may ask a blob for
IIDs == {"IID_IUnknown", "IID_IDxcBlob", "IID_IDxcBlobEncoding"}

\* the caller's buffer as the blob could affect it: freed, copied
CallerBuffer == [freed |-> FALSE, copies |-> 0]

\* ShaderBlob(void *data, size_t size)
ShaderBlob(data, size) == [m_data |-> data, m_size |-> size]

\* Each method gives the object and the caller's buffer after the call, the
\* value returned and, for QueryInterface, the caller's *ppv after the call.
GetBufferPointer(b, h) == [obj |-> b, heap |-> h, ret |-> b.m_data]

GetBufferSize(b, h) == [obj |-> b, heap |-> h, ret |-> b.m_size]

\* a QueryInterface that hands out the blob itself
QueryInterface_Succeeds(b, h, iid, ppv) ==
  [obj |-> b, heap |-> h, ret |-> S_OK, ppv |-> b.m_data]

QueryInterface(b, h, iid, ppv) ==
  [obj |-> b, heap |-> h, ret |-> E_NOINTERFACE, ppv |-> ppv]

AddRef(b, h) == [obj |-> b, heap |-> h, ret |-> 1]

\* a Release that behaves as a counted object's does at zero
Release_Frees(b, h) ==
  [obj |-> ShaderBlob(0, 0), heap |-> [h EXCEPT !.freed = TRUE], ret |-> 0]

Release(b, h) == [obj |-> b, heap |-> h, ret |-> 0]


\* ----------------------------------------------------------------- pan_pool
\* the alignment parameter is an unsigned: a size_t argument is reduced
\* modulo 2^32.  The model's integers stop at 2^31, so the modulus is stood
\* in by 2^30, far above every size of the model.
UnsignedModulus == 1073741824

ToUnsigned(n) == n % UnsignedModulus

\* the caller's bytes
PoolData == UNION {[1..n -> 1..MaxByte] : n \in 1..MaxData}

Alignments == {1, 2, 4}

\* a pool: its buffer (CPU side, indexed by offset), the first free offset
\* and the device address of offset 0
EmptyPool == [mem |-> [k \in 0..(PoolSize - 1) |-> 0], top |-> 0, gpu_base |-> PoolSize]

AlignUp(x, a) == ((x + a - 1) \div a) * a

\* allocate(size, alignment) -> (writable memory, device address)
pan_pool_alloc_aligned(pool, sz, alignment) ==
  LET off == AlignUp(pool.top, alignment)
  IN [pool |-> [pool EXCEPT !.top = off + sz],
      ptr |-> [cpu |-> off, gpu |-> pool.gpu_base + off]]

PoolFits(pool, sz, alignment) ==
  alignment > 0 /\ AlignUp(pool.top, alignment) + sz <= PoolSize

memcpy(mem, dst, src, n) ==
  [k \in DOMAIN mem |-> IF k >= dst /\ k < dst + n THEN src[k - dst + 1] ELSE mem[k]]

pan_pool_upload_aligned(pool, data, sz, alignment) ==
  LET transfer == pan_pool_alloc_aligned(pool, sz, alignment)
  IN [pool |-> [transfer.pool EXCEPT !.mem = memcpy(@, transfer.ptr.cpu, data, sz)],
      ret |-> transfer.ptr.gpu,
      ev |-> << [call |-> "pan_pool_alloc_aligned", sz |-> sz, alignment |-> alignment,
                 cpu |-> transfer.ptr.cpu, gpu |-> transfer.ptr.gpu],
                [call |-> "memcpy", sz |-> sz, alignment |-> 0,
                 cpu |-> transfer.ptr.cpu, gpu |-> 0] >>]

\* an upload that asks for byte alignment
pan_pool_upload_Unaligned(pool, data, sz) ==
  pan_pool_upload_aligned(pool, data, sz, 1)

pan_pool_upload(pool, data, sz) ==
  pan_pool_upload_aligned(pool, data, sz, ToUnsigned(sz))

\* --------------------------------------------------------------- allocation
\* ralloc parents: the caller's context ctx, the struct val, or none (NULL)
AllocParents == {"ctx", "val", "none"}

\* line 90: rzalloc(ctx, struct dxil_validator)
ContextParent == "ctx"

\* a copy made with no ralloc parent
StringParent_Unparented == "none"

\* lines 242 and 273: ralloc_strdup(val, str)
StringParent == "val"

\* the nodes freed with a node: itself and, for the parent of val, val
Under(node) == IF node = ContextParent THEN {node, "val"} ELSE {node}

\* ralloc_free(node): the node goes with everything allocated under it
RallocFree(node, strs) ==
  [p \in AllocParents |-> IF p \in Under(node) THEN 0 ELSE strs[p]]

\* -------------------------------------------------------------------- state
VARIABLES
  phase,    \* "start", "live", "failed" (create returned NULL), "destroyed",
            \* "crashed", "rootfreed"
  val,      \* the fields of struct dxil_validator (as last written)
  alloc,    \* the struct is allocated
  loaded,   \* per library: LoadLibraryA successes not yet undone by FreeLibrary
  refs,     \* per service: references obtained and not yet released
  strings,  \* per ralloc parent: the strings allocated under it and not freed
  calls,    \* validate/disassemble calls made so far
  op,       \* the function that ran last
  inp,      \* the environment's answers during that run
  trace,    \* the external calls of that run, in order
  ret,      \* what it returned: bool (non-null for create) and string
  self,     \* what GetModuleFileNameA and strrchr gave that run, if called
  sb,       \* a ShaderBlob, the buffer it views and the last call made on it
  pp        \* a pan_pool before and after the last upload, and that upload

validatorVars ==
  <<phase, val, alloc, loaded, refs, strings, calls, op, inp, trace, ret, self>>

vars == <<phase, val, alloc, loaded, refs, strings, calls, op, inp, trace, ret, self, sb, pp>>

NoUpload ==
  [pool |-> EmptyPool, before |-> EmptyPool, op |-> "none", data |-> <<>>,
   sz |-> 0, alignment |-> 0, ev |-> <<>>, ret |-> 0]

\* no ShaderBlob constructed yet
NoBlob ==
  [built |-> FALSE, obj |-> ShaderBlob(0, 0), data |-> 0, size |-> 0,
   heap |-> CallerBuffer, last |-> "none", ret |-> 0,
   ppvBefore |-> 0, ppvAfter |-> 0, n |-> 0, released |-> 0]

\* load_dxil_mod did not ask for the path of the running module
NoSelf == [path_size |-> 0, last_slash |-> NoSlash]

NoRet == [bool |-> FALSE, str |-> NoStr]

Init ==
  /\ phase = "start"
  /\ val = ZeroVal
  /\ alloc = FALSE
  /\ loaded = [l \in Libs |-> 0]
  /\ refs = [s \in Svcs |-> 0]
  /\ strings = [p \in AllocParents |-> 0]
  /\ calls = 0
  /\ op = "none"
  /\ inp = BaseInput
  /\ trace = <<>>
  /\ ret = NoRet
  /\ self = NoSelf
  /\ sb = NoBlob
  /\ pp = NoUpload

\* what a run's external calls do to the libraries and service references
AfterLoads(ev) ==
  [l \in Libs |-> loaded[l] + Loads(ev, l) - CountOk(ev, "FreeLibrary", l)]

AfterRefs(ev) ==
  [s \in Svcs |-> refs[s] + Acquires(ev, s) - CountOk(ev, "Release", s)]

Create ==
  /\ phase = "start"
  /\ \E i \in CreateInputs :
       LET r == dxil_create_validator(i)
       IN /\ i.last_slash \in SlashAt(i.path_size)
          /\ phase' = IF r.ret THEN "live" ELSE "failed"
          /\ val' = r.val
          /\ alloc' = r.alloc
          /\ loaded' = AfterLoads(r.ev)
          /\ refs' = AfterRefs(r.ev)
          /\ trace' = r.ev
          /\ ret' = [bool |-> r.ret, str |-> NoStr]
          /\ self' = IF i.allocOk /\ ~i.defaultOk
                     THEN [path_size |-> i.path_size, last_slash |-> i.last_slash]
                     ELSE NoSelf
  /\ op' = "create"
  /\ UNCHANGED <<strings, calls, inp, sb, pp>>

Validate ==
  /\ phase = "live"
  /\ calls < MaxCalls
  /\ \E i \in ValidateInputs(val) :
       LET r == dxil_validate_module(val, i)
       IN /\ phase' = IF r.returned THEN "live" ELSE "crashed"
          /\ inp' = i
          /\ trace' = r.ev
          /\ ret' = [bool |-> r.ret, str |-> r.error]
          /\ strings' = [strings EXCEPT ![StringParent] = @ + r.strs]
          /\ loaded' = AfterLoads(r.ev)
          /\ refs' = AfterRefs(r.ev)
  /\ op' = "validate"
  /\ calls' = calls + 1
  /\ self' = NoSelf
  /\ UNCHANGED <<val, alloc, sb, pp>>

Disasm ==
  /\ phase = "live"
  /\ calls < MaxCalls
  /\ \E i \in DisasmInputs(val) :
       LET r == dxil_disasm_module(val, i)
       IN /\ phase' = IF r.returned THEN "live" ELSE "crashed"
          /\ inp' = i
          /\ trace' = r.ev
          /\ ret' = [bool |-> FALSE, str |-> r.ret]
          /\ strings' = [strings EXCEPT ![StringParent] = @ + r.strs]
          /\ loaded' = AfterLoads(r.ev)
          /\ refs' = AfterRefs(r.ev)
  /\ op' = "disasm"
  /\ calls' = calls + 1
  /\ self' = NoSelf
  /\ UNCHANGED <<val, alloc, sb, pp>>

\* ralloc_free(val) frees the struct and the strings that are its children;
\* val keeps the field values the struct had when it was freed
Destroy ==
  /\ phase = "live"
  /\ LET ev == dxil_destroy_validator(val)
     IN /\ trace' = ev
        /\ loaded' = AfterLoads(ev)
        /\ refs' = AfterRefs(ev)
  /\ phase' = "destroyed"
  /\ alloc' = FALSE
  /\ strings' = RallocFree("val", strings)
  /\ op' = "destroy"
  /\ ret' = NoRet
  /\ self' = NoSelf
  /\ UNCHANGED <<val, calls, inp, sb, pp>>

\* the caller frees its allocation context while the validator is live
FreeRoot ==
  /\ phase = "live"
  /\ phase' = "rootfreed"
  /\ alloc' = FALSE
  /\ strings' = RallocFree("ctx", strings)
  /\ op' = "freeroot"
  /\ trace' = <<Ev("ralloc_free", "ctx", TRUE)>>
  /\ ret' = NoRet
  /\ self' = NoSelf
  /\ UNCHANGED <<val, loaded, refs, calls, inp, sb, pp>>

Next == Create \/ Validate \/ Disasm \/ Destroy \/ FreeRoot

Spec == Init /\ [][Next]_vars

\* ------------------------------------------------- the ShaderBlob on its own
BlobConstruct ==
  /\ ~sb.built
  /\ \E data \in Ptrs, size \in 0..MaxSize :
       sb' = [NoBlob EXCEPT !.built = TRUE, !.obj = ShaderBlob(data, size),
                            !.data = data, !.size = size, !.last = "ShaderBlob"]
  /\ UNCHANGED <<validatorVars, pp>>

\* the state after a method call that gave r
AfterBlobCall(name, r) ==
  [sb EXCEPT !.obj = r.obj, !.heap = r.heap, !.last = name, !.ret = r.ret,
             !.n = @ + 1]

BlobCallable == sb.built /\ sb.n < MaxBlobCalls

BlobGetBufferPointer ==
  /\ BlobCallable
  /\ sb' = AfterBlobCall("GetBufferPointer", GetBufferPointer(sb.obj, sb.heap))
  /\ UNCHANGED <<validatorVars, pp>>

BlobGetBufferSize ==
  /\ BlobCallable
  /\ sb' = AfterBlobCall("GetBufferSize", GetBufferSize(sb.obj, sb.heap))
  /\ UNCHANGED <<validatorVars, pp>>

BlobQueryInterface ==
  /\ BlobCallable
  /\ \E iid \in IIDs, ppv \in Ptrs :
       LET r == QueryInterface(sb.obj, sb.heap, iid, ppv)
       IN sb' = [AfterBlobCall("QueryInterface", r) EXCEPT
                   !.ppvBefore = ppv, !.ppvAfter = r.ppv]
  /\ UNCHANGED <<validatorVars, pp>>

BlobAddRef ==
  /\ BlobCallable
  /\ sb' = AfterBlobCall("AddRef", AddRef(sb.obj, sb.heap))
  /\ UNCHANGED <<validatorVars, pp>>

BlobRelease ==
  /\ BlobCallable
  /\ sb' = [AfterBlobCall("Release", Release(sb.obj, sb.heap)) EXCEPT
              !.released = @ + 1]
  /\ UNCHANGED <<validatorVars, pp>>

BlobNext ==
  \/ BlobConstruct \/ BlobGetBufferPointer \/ BlobGetBufferSize
  \/ BlobQueryInterface \/ BlobAddRef \/ BlobRelease

BlobSpec == Init /\ [][BlobNext]_vars

\* --------------------------------------------------- the pan_pool on its own
AfterUpload(name, data, sz, alignment, r) ==
  [pool |-> r.pool, before |-> pp.pool, op |-> name, data |-> data,
   sz |-> sz, alignment |-> alignment, ev |-> r.ev, ret |-> r.ret]

PoolUpload ==
  /\ \E data \in PoolData : \E sz \in 1..Len(data) :
       /\ PoolFits(pp.pool, sz, ToUnsigned(sz))
       /\ pp' = AfterUpload("upload", data, sz, 0, pan_pool_upload(pp.pool, data, sz))
  /\ UNCHANGED <<validatorVars, sb>>

PoolUploadAligned ==
  /\ \E data \in PoolData : \E sz \in 1..Len(data) : \E alignment \in Alignments :
       /\ PoolFits(pp.pool, sz, alignment)
       /\ pp' = AfterUpload("upload_aligned", data, sz, alignment,
                            pan_pool_upload_aligned(pp.pool, data, sz, alignment))
  /\ UNCHANGED <<validatorVars, sb>>

PoolNext == PoolUpload \/ PoolUploadAligned

PoolSpec == Init /\ [][PoolNext]_vars

\* ------------------------------------------------------------------- claims
NothingHeld == (\A l \in Libs : loaded[l] = 0) /\ (\A s \in Svcs : refs[s] = 0)

\* C1: whenever dxil_validate_module returns after extracting a status from
\* the operation result, it returns true exactly when that status is a
\* success code, whatever the library service, the out-parameter and the
\* decoding calls did.
C1_PassedReflectsStatus ==
  (op = "validate" /\ phase = "live" /\ inp.validateOk) => (ret.bool <=> inp.hr >= 0)

\* a rejected module on a context with IDxcLibrary, message requested,
\* GetBlobAsUtf8 failing: still reported as not passed
C1_Witness ==
  /\ op = "validate" /\ phase = "live" /\ inp.validateOk
  /\ inp.hr = E_FAIL /\ inp.error /\ val.dxc_library
  /\ inp.errBufOk /\ ~inp.utf8Ok /\ Called(trace, "GetBlobAsUtf8")
  /\ ~ret.bool

\* C2: when DXIL.dll loads neither from the default search path nor from the
\* directory of the running module, dxil_create_validator returns NULL with
\* no library loaded and no service reference held.
C2_NoValidatorLibraryGivesNull ==
  (op = "create" /\ Count(trace, "LoadLibraryA", "DXIL.dll") = 1 /\ Loads(trace, "dxil_mod") = 0)
    => (~ret.bool /\ phase = "failed" /\ NothingHeld)

\* both loads were tried and both failed
C2_Witness ==
  /\ op = "create" /\ Loads(trace, "dxil_mod") = 0
  /\ Count(trace, "LoadLibraryA", "DXIL.dll") = 1
  /\ Count(trace, "LoadLibraryA", "self\\DXIL.dll") = 1
  /\ ~ret.bool

ValidatorFactoryFailed(tr) ==
  \E k \in 1..Len(tr) :
     /\ ~tr[k].ok
     /\ \/ tr[k].call = "GetProcAddress" /\ tr[k].arg = "dxil_mod"
        \/ tr[k].call = "DxcCreateInstance" /\ tr[k].arg = "CLSID_DxcValidator"

\* C3: when DXIL.dll loaded but DxcCreateInstance cannot be resolved or fails
\* to create the validator, dxil_create_validator returns NULL, has unloaded
\* DXIL.dll exactly once, never tried dxcompiler.dll and freed the context.
C3_ValidatorFailureUnloads ==
  (op = "create" /\ Loads(trace, "dxil_mod") = 1 /\ ValidatorFactoryFailed(trace))
    => /\ ~ret.bool /\ phase = "failed"
       /\ Unloads(trace, "dxil_mod") = 1
       /\ loaded["dxil_mod"] = 0
       /\ Count(trace, "LoadLibraryA", "dxcompiler.dll") = 0
       /\ Count(trace, "ralloc_free", "val") = 1
       /\ ~alloc

\* DXIL.dll came from the module's directory and the factory call failed
C3_Witness ==
  /\ op = "create" /\ CountOk(trace, "LoadLibraryA", "self\\DXIL.dll") = 1
  /\ Count(trace, "DxcCreateInstance", "CLSID_DxcValidator") = 1
  /\ Acquires(trace, "dxc_validator") = 0
  /\ Unloads(trace, "dxil_mod") = 1 /\ ~ret.bool

\* C4: once DXIL.dll and the validator are obtained, dxil_create_validator
\* returns a context whatever the diagnostics steps did; a step that failed
\* leaves its field null, nothing is unloaded or released, and what was
\* acquired is still held.
C4_DiagnosticsAreSoft ==
  (op = "create" /\ Acquires(trace, "dxc_validator") = 1)
    => /\ ret.bool /\ phase = "live" /\ alloc
       /\ val.dxil_mod /\ val.dxc_validator
       /\ val.dxcompiler_mod <=> (Loads(trace, "dxcompiler_mod") = 1)
       /\ val.dxc_library <=> (Acquires(trace, "dxc_library") = 1)
       /\ val.dxc_compiler <=> (Acquires(trace, "dxc_compiler") = 1)
       /\ \A l \in Libs : Unloads(trace, l) = 0 /\ (loaded[l] = IF val[l] THEN 1 ELSE 0)
       /\ \A s \in Svcs : Releases(trace, s) = 0 /\ (refs[s] = IF val[s] THEN 1 ELSE 0)

\* IDxcLibrary failed, IDxcCompiler was still created
C4_Witness ==
  /\ op = "create" /\ ret.bool
  /\ Count(trace, "DxcCreateInstance", "CLSID_DxcLibrary") = 1
  /\ ~val.dxc_library /\ val.dxc_compiler /\ val.dxcompiler_mod
  /\ loaded["dxcompiler_mod"] = 1 /\ refs["dxc_compiler"] = 1

\* C5: a live context has DXIL.dll and the validator, and has a diagnostics
\* service only if it has dxcompiler.dll.
C5_ContextInvariant ==
  phase = "live"
    => /\ val.dxil_mod /\ val.dxc_validator
       /\ (val.dxc_library \/ val.dxc_compiler) => val.dxcompiler_mod

\* a context with a diagnostics service, after the calls made on it
C5_Witness ==
  /\ phase = "live" /\ calls = MaxCalls /\ op = "disasm"
  /\ val.dxc_compiler /\ ~val.dxc_library /\ val.dxcompiler_mod

\* C6: dxil_destroy_validator releases each service the context holds exactly
\* once and no null one, unloads each loaded library exactly once, and
\* leaves no library loaded and no service reference held.
C6_DestroyReleasesAll ==
  phase = "destroyed"
    => /\ \A s \in Svcs : Releases(trace, s) = IF val[s] THEN 1 ELSE 0
       /\ \A l \in Libs : Unloads(trace, l) = IF val[l] THEN 1 ELSE 0
       /\ \A k \in 1..Len(trace) : trace[k].ok
       /\ NothingHeld

\* a context with dxcompiler.dll and IDxcCompiler but no IDxcLibrary
C6_Witness ==
  /\ phase = "destroyed" /\ val.dxcompiler_mod /\ val.dxc_compiler /\ ~val.dxc_library
  /\ Releases(trace, "dxc_compiler") = 1 /\ Unloads(trace, "dxcompiler_mod") = 1
  /\ NothingHeld

\* the Release and FreeLibrary calls of a run, in order
RECURSIVE Teardown(_)
Teardown(tr) ==
  IF tr = <<>> THEN <<>>
  ELSE IF Head(tr).call \in {"Release", "FreeLibrary"}
       THEN <<Head(tr).arg>> \o Teardown(Tail(tr))
       ELSE Teardown(Tail(tr))

\* the order in which dxil_create_validator acquires (lines 97-134)
AcquireOrder == <<"dxil_mod", "dxc_validator", "dxcompiler_mod", "dxc_library", "dxc_compiler">>

\* the order in which dxil_destroy_validator gives back (lines 153-163)
DestroyOrder == <<"dxc_validator", "dxil_mod", "dxc_library", "dxc_compiler", "dxcompiler_mod">>

RECURSIVE Held(_, _)
Held(order, v) ==
  IF order = <<>> THEN <<>>
  ELSE IF v[Head(order)] THEN <<Head(order)>> \o Held(Tail(order), v)
       ELSE Held(Tail(order), v)

Reverse(q) == [k \in 1..Len(q) |-> q[Len(q) + 1 - k]]

\* C7 as stated: in dxil_destroy_validator all releases precede all unloads
\* and the teardown is the reverse of the acquisition order.
C7_ReverseAcquisitionOrder ==
  phase = "destroyed"
    => /\ \A j, k \in 1..Len(trace) :
            (trace[j].call = "Release" /\ trace[k].call = "FreeLibrary") => j < k
       /\ Teardown(trace) = Reverse(Held(AcquireOrder, val))

\* C7 as the code has it: each service is released before the library it
\* was created from is unloaded, and the teardown order is validator,
\* DXIL.dll, IDxcLibrary, IDxcCompiler, dxcompiler.dll (those that are held).
C7_DestroyOrder ==
  phase = "destroyed"
    => /\ Teardown(trace) = Held(DestroyOrder, val)
       /\ Pos(trace, "Release", "dxc_validator") < Pos(trace, "FreeLibrary", "dxil_mod")
       /\ \A s \in {"dxc_library", "dxc_compiler"} :
            val[s] => /\ Pos(trace, "Release", s) > 0
                      /\ Pos(trace, "Release", s) < Pos(trace, "FreeLibrary", "dxcompiler_mod")

\* a context holding all five
C7_Witness ==
  /\ phase = "destroyed" /\ \A f \in Fields : val[f]
  /\ Len(Teardown(trace)) = 5

\* C8: a failed validation with a message requested on a context without
\* IDxcLibrary returns false with *error = NULL and calls neither
\* GetErrorBuffer nor GetBlobAsUtf8.
C8_NoLibraryNoMessage ==
  (op = "validate" /\ inp.validateOk /\ inp.hr < 0 /\ inp.error /\ ~val.dxc_library)
    => /\ phase = "live"
       /\ ~ret.bool /\ ret.str = NullStr
       /\ ~Called(trace, "GetErrorBuffer") /\ ~Called(trace, "GetBlobAsUtf8")

\* dxcompiler.dll is loaded, only IDxcLibrary is missing
C8_Witness ==
  /\ op = "validate" /\ inp.validateOk /\ inp.hr = E_FAIL /\ inp.error
  /\ ~val.dxc_library /\ val.dxcompiler_mod /\ val.dxc_compiler
  /\ ~ret.bool /\ ret.str = NullStr

\* C9 as stated, for the buffers that hold some text: with IDxcLibrary
\* present, a failed validation, both decoding calls and the copy
\* succeeding, and a decoded buffer that starts with a text byte (its last
\* byte a terminator or not), the returned error string is a non-empty
\* null-terminated string.
C9_ErrorStringNonEmpty ==
  (/\ op = "validate" /\ phase = "live" /\ inp.validateOk /\ inp.hr < 0 /\ inp.error
   /\ val.dxc_library /\ inp.errBufOk /\ inp.utf8Ok /\ inp.strdupOk
   /\ Len(inp.buf) > 0 /\ inp.buf[1] # 0)
    => (ret.str.kind = "str" /\ Len(ret.str.str) > 0)

\* C10: dxil_disasm_module on a context missing IDxcCompiler or IDxcLibrary
\* returns NULL and calls neither Disassemble nor GetBlobAsUtf8 nor
\* ralloc_strdup.
C10_DisasmUnavailable ==
  (op = "disasm" /\ (~val.dxc_compiler \/ ~val.dxc_library))
    => /\ phase = "live" /\ ret.str = NullStr
       /\ ~Called(trace, "Disassemble") /\ ~Called(trace, "GetBlobAsUtf8")
       /\ ~Called(trace, "ralloc_strdup")

\* only one of the two services is missing
C10_Witness ==
  /\ op = "disasm" /\ val.dxc_compiler /\ ~val.dxc_library
  /\ ret.str = NullStr /\ trace = <<>>

\* C11 as stated: on a context with IDxcCompiler and IDxcLibrary,
\* dxil_disasm_module returns (never aborts), returns a string when
\* Disassemble, GetBlobAsUtf8 and the copy succeed, returns NULL when
\* Disassemble or GetBlobAsUtf8 fails, and calls GetBlobAsUtf8 only after a
\* successful Disassemble.
C11_DisasmOutcome ==
  (op = "disasm" /\ val.dxc_compiler /\ val.dxc_library)
    => /\ phase = "live"
       /\ (inp.disasmOk /\ inp.utf8Ok /\ inp.strdupOk) => ret.str.kind = "str"
       /\ (~inp.disasmOk \/ ~inp.utf8Ok) => ret.str = NullStr
       /\ Called(trace, "GetBlobAsUtf8")
            => (trace[1].call = "Disassemble" /\ trace[1].ok
                /\ Pos(trace, "GetBlobAsUtf8", "blob") = 2)

\* C12 as stated, for the case it names: when Validate yields no
\* operation-result object, dxil_validate_module still returns and makes no
\* call through the absent result.
C12_NoUseOfAbsentResult ==
  (op = "validate" /\ ~inp.validateOk)
    => /\ phase = "live"
       /\ ~Called(trace, "GetStatus") /\ ~Called(trace, "GetErrorBuffer")

Transients == {"result", "blob", "blob_utf8"}

\* how many objects of each kind a run obtained
Obtained(tr, t) ==
  CASE t = "result" -> CountOk(tr, "Validate", "source")
    [] t = "blob" -> CountOk(tr, "GetErrorBuffer", "result") + CountOk(tr, "Disassemble", "source")
    [] OTHER -> CountOk(tr, "GetBlobAsUtf8", "blob")

\* C13: when dxil_validate_module or dxil_disasm_module returns, every
\* operation result, raw blob and UTF-8 blob it obtained has been released
\* exactly once, and nothing it did not obtain has been released.
C13_TransientsReleased ==
  (op \in {"validate", "disasm"} /\ phase = "live")
    => \A t \in Transients : Count(trace, "Release", t) = Obtained(trace, t)

\* the early return after a failed GetBlobAsUtf8 in dxil_disasm_module, with a
\* raw blob to give back
C13_Witness ==
  /\ op = "disasm" /\ phase = "live" /\ inp.disasmOk /\ ~inp.utf8Ok
  /\ Obtained(trace, "blob") = 1 /\ Count(trace, "Release", "blob") = 1
  /\ Obtained(trace, "blob_utf8") = 0 /\ ret.str = NullStr

\* C15 as stated: whenever the decoded buffer is terminated and copied, the
\* index GetBufferSize() - 1 lies inside the buffer (size 0 included) and the
\* string handed back holds every byte of the buffer that precedes its
\* first terminator.
C15_TerminatorInsideBuffer ==
  (op \in {"validate", "disasm"} /\ inp.utf8Ok)
    => /\ TerminatorIndex(Len(inp.buf)) \in 0..(Len(inp.buf) - 1)
       /\ (phase = "live" /\ inp.strdupOk) => ret.str = Str(CStr(inp.buf))

\* C16: a dxil_validate_module or dxil_disasm_module call, whatever its
\* outcome, leaves the five fields of the context as they were, releases
\* none of the context's service references and unloads no library.
C16_CallsLeaveContextAlone ==
  [][(phase = "live" /\ op' \in {"validate", "disasm"})
       => /\ val' = val /\ refs' = refs /\ loaded' = loaded
          /\ \A k \in 1..Len(trace') :
               ~(trace'[k].call = "Release" /\ trace'[k].arg \in Svcs)
               /\ trace'[k].call # "FreeLibrary"]_vars

\* after the last of the calls, one that used IDxcLibrary to decode a
\* message, the context still holds everything it was created with
C16_Witness ==
  /\ op = "validate" /\ phase = "live" /\ calls = MaxCalls
  /\ CountOk(trace, "GetBlobAsUtf8", "blob") = 1
  /\ \A f \in Fields : val[f]
  /\ \A s \in Svcs : refs[s] = 1
  /\ \A l \in Libs : loaded[l] = 1

\* C17: a dxil_validate_module call with an error out-parameter that returns
\* leaves *error as it was when the status is a success; when the status is
\* a failure *error ends as NULL or as a string allocated by this call,
\* never as the old value, and it is NULL when IDxcLibrary is absent or
\* GetErrorBuffer or GetBlobAsUtf8 failed.
C17_ErrorOutParameter ==
  (op = "validate" /\ phase = "live" /\ inp.error)
    => /\ inp.hr >= 0 => ret.str = OldStr
       /\ inp.hr < 0 =>
            /\ ret.str.kind \in {"null", "str"}
            /\ (~val.dxc_library \/ ~inp.errBufOk \/ ~inp.utf8Ok) => ret.str = NullStr
            /\ ret.str.kind = "str" => CountOk(trace, "ralloc_strdup", "val") = 1

\* a rejected module whose message could not be fetched: *error is NULL
C17_Witness ==
  /\ op = "validate" /\ phase = "live" /\ inp.error /\ inp.validateOk
  /\ inp.hr = E_FAIL /\ val.dxc_library /\ ~inp.errBufOk
  /\ Called(trace, "GetErrorBuffer") /\ ret.str = NullStr

TotalStrings(f) == f["ctx"] + f["val"] + f["none"]

\* C14: every string dxil_validate_module or dxil_disasm_module returns is
\* allocated inside the caller's allocation context (under the struct, which
\* is the context's child), is still allocated after any later call, and is
\* freed by dxil_destroy_validator and by freeing the caller's context.
C14_StringsOwnedByContext ==
  /\ [](/\ strings["none"] = 0
        /\ TotalStrings(strings) > 0 => alloc
        /\ phase \in {"destroyed", "rootfreed"} => TotalStrings(strings) = 0)
  /\ [][(phase = "live" /\ op' \in {"validate", "disasm"})
          => /\ \A p \in AllocParents : strings'[p] >= strings[p]
             /\ ret'.str.kind = "str"
                  => TotalStrings(strings') = TotalStrings(strings) + 1]_vars

\* two calls each returned a string and both strings are allocated
C14_Witness ==
  /\ phase = "live" /\ calls = MaxCalls /\ MaxCalls >= 2
  /\ ret.str.kind = "str" /\ strings["val"] = calls /\ alloc

DefaultLoadFailed(tr) ==
  Count(tr, "LoadLibraryA", "DXIL.dll") = 1 /\ CountOk(tr, "LoadLibraryA", "DXIL.dll") = 0

\* C18: load_dxil_mod tries the running module's directory at most once and
\* only after the default-path load of DXIL.dll failed; it gives up without
\* that second load when the self path is not obtained (0), fills the
\* buffer (MAX_PATH), has no backslash, or has no room for "DXIL.dll" after
\* its directory part; dxcompiler.dll is tried once, by its bare name only.
C18_FallbackLoad ==
  op = "create"
    => /\ Count(trace, "LoadLibraryA", "self\\DXIL.dll") <= 1
       /\ Count(trace, "LoadLibraryA", "self\\DXIL.dll") = 1
            => /\ DefaultLoadFailed(trace)
               /\ Pos(trace, "LoadLibraryA", "DXIL.dll") < Pos(trace, "LoadLibraryA", "self\\DXIL.dll")
       /\ (/\ DefaultLoadFailed(trace)
           /\ \/ self.path_size = 0
              \/ self.path_size = MAX_PATH
              \/ self.last_slash = NoSlash
              \/ (self.last_slash + 1) + DllNameLen >= MAX_PATH)
            => /\ Count(trace, "LoadLibraryA", "self\\DXIL.dll") = 0
               /\ ~ret.bool /\ phase = "failed"
       /\ Count(trace, "LoadLibraryA", "dxcompiler.dll") <= 1
       /\ \A k \in 1..Len(trace) :
            trace[k].call = "LoadLibraryA"
              => trace[k].arg \in {"DXIL.dll", "self\\DXIL.dll", "dxcompiler.dll"}

\* the self path filled the whole buffer: no second load, NULL
C18_Witness ==
  /\ op = "create" /\ DefaultLoadFailed(trace)
  /\ self.path_size = MAX_PATH
  /\ Count(trace, "LoadLibraryA", "self\\DXIL.dll") = 0
  /\ ~ret.bool

\* C19: a ShaderBlob built over (data, size) answers GetBufferPointer with
\* data and GetBufferSize with size after any calls; no call changes the
\* object or frees or copies the caller's buffer; QueryInterface returns
\* E_NOINTERFACE and leaves the caller's object pointer as it was.
C19_ShaderBlobIsAView ==
  sb.built
    => /\ sb.obj = [m_data |-> sb.data, m_size |-> sb.size]
       /\ ~sb.heap.freed /\ sb.heap.copies = 0
       /\ sb.last = "GetBufferPointer" => sb.ret = sb.data
       /\ sb.last = "GetBufferSize" => sb.ret = sb.size
       /\ sb.last = "QueryInterface"
            => (sb.ret = E_NOINTERFACE /\ sb.ppvAfter = sb.ppvBefore)

\* the pointer is still reported after the blob was released twice
C19_Witness ==
  /\ sb.built /\ sb.released = 2 /\ sb.n = 3
  /\ sb.last = "GetBufferPointer" /\ sb.data # 0 /\ sb.ret = sb.data

\* C20: pan_pool_upload(pool, data, sz) leaves the pool and returns the
\* address that pan_pool_upload_aligned(pool, data, sz, sz) does; an upload
\* makes exactly one allocation, of sz bytes with the requested alignment
\* (sz itself for pan_pool_upload), copies exactly the first sz bytes of data
\* to that allocation's CPU address and returns its device address.
C20_UploadIsAlignedUpload ==
  pp.op \in {"upload", "upload_aligned"}
    => LET want == IF pp.op = "upload" THEN pp.sz ELSE pp.alignment
           same == pan_pool_upload_aligned(pp.before, pp.data, pp.sz, pp.sz)
       IN /\ Len(pp.ev) = 2
          /\ pp.ev[1].call = "pan_pool_alloc_aligned"
          /\ pp.ev[1].sz = pp.sz /\ pp.ev[1].alignment = want
          /\ pp.ev[2].call = "memcpy"
          /\ pp.ev[2].sz = pp.sz /\ pp.ev[2].cpu = pp.ev[1].cpu
          /\ \A k \in 0..(PoolSize - 1) :
               pp.pool.mem[k] =
                 IF k >= pp.ev[1].cpu /\ k < pp.ev[1].cpu + pp.sz
                 THEN pp.data[k - pp.ev[1].cpu + 1]
                 ELSE pp.before.mem[k]
          /\ pp.ret = pp.ev[1].gpu
          /\ pp.op = "upload" => (pp.pool = same.pool /\ pp.ret = same.ret)

\* a two-byte upload into a pool whose first free offset is odd: the
\* allocation is moved up to the size
C20_Witness ==
  /\ pp.op = "upload" /\ pp.sz = 2 /\ pp.before.top = 1
  /\ pp.ev[1].cpu = 2 /\ pp.ret = pp.pool.gpu_base + 2
  /\ pp.pool.mem[2] = pp.data[1] /\ pp.pool.mem[3] = pp.data[2]

====
